---------------------------- MODULE Spec2Model ----------------------------
(***************************************************************************)
(* Furniture viewer (src/main.js): registration of the sliding doors and   *)
(* drawers of the loaded cabinet, and the toggle orchestration that chains *)
(* their animations with gsap tweens and setTimeout continuations.         *)
(*                                                                         *)
(* Time is counted in units of 100 ms, the greatest common divisor of the  *)
(* four delays of the code (1.2 s, 0.8 s, 800 ms, 900 ms).  A tween or a   *)
(* timer is a record with the time it has left; events that fall due at    *)
(* the same instant run in either order (a tween completes on the first    *)
(* animation frame at or after its end, a timer on the first event-loop    *)
(* turn at or after its delay).                                            *)
(*                                                                         *)
(* A position is the value a completed tween left on its axis; the values  *)
(* a tween writes while it is in flight are not modelled.                  *)
(***************************************************************************)
EXTENDS Integers, Sequences, FiniteSets, TLC

VARIABLES
    loadState,        \* "loading" | "loaded" | "failed": the loader.load callbacks
    doors,            \* doors[]: registered door groups (object ids), index 0..
    doorStates,       \* doorStates: index -> open flag (keyed by uuid in the code)
    doorOriginalX,    \* doorOriginalX: index -> x at registration
    drawers,          \* drawers[]
    drawerStates,     \* drawerStates
    drawerOriginalX,  \* drawerOriginalX
    drawerOriginalZ,  \* drawerOriginalZ
    position,         \* object id -> [x, z]: mesh.position of every group
    bboxSize,         \* object id -> [x, z]: size of Box3().setFromObject(group)
    modelRef,         \* the loaded scene graph: node -> [name, parent, isMesh]
    tooltip,          \* #tooltip: [visible, text]
    containerPointer, \* 'pointer' class of the container
    doorBtn,          \* 'active' class of button[data-door-index=i]
    drawerBtn,        \* 'active' class of button[data-drawer-index=i]
    anims,            \* gsap tweens in flight
    timers,           \* setTimeout continuations pending
    threw,            \* an event handler ended with an uncaught TypeError
    call,             \* the latest user-level call: what was called, on what state
    viewer            \* the PhotorealisticViewer of src/unnamed/part_000

vars == <<loadState, doors, doorStates, doorOriginalX, drawers, drawerStates,
          drawerOriginalX, drawerOriginalZ, position, bboxSize, modelRef, tooltip,
          containerPointer, doorBtn, drawerBtn, anims, timers, threw, call, viewer>>

registry == <<loadState, doors, doorOriginalX, drawers, drawerOriginalX,
              drawerOriginalZ, bboxSize, modelRef>>

\* what onMouseMove writes
overlay == <<tooltip, containerPointer>>

---------------------------------------------------------------------------
\* Bounds of the model
MaxOps == 2          \* user-level calls in one behaviour, at any time
MaxSeqOps == 3       \* user-level calls in one behaviour, one at a time
MaxMeshes == 3       \* meshes of a scene graph in panel discovery alone

\* Program constants, in units of 100 ms
DoorDuration == 12       \* gsap duration 1.2
DrawerDuration == 8      \* gsap duration 0.8
DoorCloseDelay == 8      \* setTimeout(..., 800)
DrawerOpenDelay == 9     \* setTimeout(..., 900)

doorNames == <<"Box2449", "Box2448", "Box2442">>
drawerNames == <<"Plane093", "Box66787356", "Box66787348", "Rectangle010",
                 "Box66787350", "Rectangle012">>

\* Array.prototype.indexOf on a list of names (0-based; the name is present)
indexOf(names, n) == (CHOOSE i \in 1..Len(names) : names[i] = n) - 1

\* mutant: drawer 1 mapped to door 0
drawerToDoorMapShifted == [i \in 0..5 |-> IF i <= 1 THEN 0 ELSE 1]

\* drawerToDoorMap = {0: 0, 1: 1, 2: 1, 3: 1, 4: 1, 5: 1}
drawerToDoorMap == [i \in 0..5 |-> IF i = 0 THEN 0 ELSE 1]

None == -1

---------------------------------------------------------------------------
\* The loaded scene graph: objs[id] is a group (name, position, extent of its
\* bounding box, parent group or 0 for the scene); meshes is the traversal
\* order of the meshes, each given by the id of its parent group.
Obj(n, x, z, sx, sz) ==
    [name |-> n, x |-> x, z |-> z, sx |-> sx, sz |-> sz, up |-> 0]

\* a group inside the group `up`
Sub(n, up) == [name |-> n, x |-> 0, z |-> 0, sx |-> 10, sz |-> 10, up |-> up]

FullScene ==
    [objs |-> << Obj("Box2449", -100, 50, 100, 4),
                 Obj("Box2448", 0, 50, 100, 4),
                 Obj("Box2442", 100, 50, 100, 4),
                 Obj("Plane093", -100, 0, 40, 80),
                 Obj("Box66787356", 0, 10, 40, 80),
                 Obj("Box66787348", 0, 20, 80, 40),
                 Obj("Rectangle010", 0, 30, 80, 40),
                 Obj("Box66787350", 0, 40, 80, 40),
                 Obj("Rectangle012", 0, 45, 80, 40),
                 Obj("Body", 0, 0, 300, 60) >>,
     meshes |-> << 10, 2, 2, 1, 3, 6, 5, 4, 7, 9, 8 >>]

\* A model in which the middle and right doors and four drawers are absent;
\* the door group holds a handle group with a mesh of its own
SmallScene ==
    [objs |-> << Obj("Box2449", -100, 50, 100, 4),
                 Obj("Box66787356", 0, 10, 40, 80),
                 Obj("Plane093", -100, 0, 40, 80),
                 Sub("Handle", 1) >>,
     meshes |-> << 1, 4, 2, 3 >>]

Scenes == {FullScene, SmallScene}


---------------------------------------------------------------------------
\* Registration (the onLoad callback of loader.load)

Range(seq) == {seq[i] : i \in 1..Len(seq)}

\* One step of model.traverse: a mesh whose parent's name is a known door
\* (drawer) name registers the parent group, once per parent name.
traverseStep(scene, acc, parent) ==
    LET parentName == scene.objs[parent].name
        matchedDoor == parentName \in Range(doorNames)
        matchedDrawer == parentName \in Range(drawerNames)
        acc1 == IF matchedDoor /\ parentName \notin acc.foundDoorParents
                THEN [acc EXCEPT
                        !.doorData = Append(@, [mesh |-> parent,
                                                index |-> indexOf(doorNames, parentName),
                                                name |-> parentName]),
                        !.foundDoorParents = @ \cup {parentName}]
                ELSE acc
    IN  IF matchedDrawer /\ parentName \notin acc1.foundDrawerParents
        THEN [acc1 EXCEPT
                !.drawerData = Append(@, [mesh |-> parent,
                                          index |-> indexOf(drawerNames, parentName),
                                          name |-> parentName]),
                !.foundDrawerParents = @ \cup {parentName}]
        ELSE acc1

RECURSIVE traverseFrom(_, _, _)
traverseFrom(scene, acc, k) ==
    IF k > Len(scene.meshes) THEN acc
    ELSE traverseFrom(scene, traverseStep(scene, acc, scene.meshes[k]), k + 1)

traverse(scene) ==
    traverseFrom(scene, [doorData |-> << >>, drawerData |-> << >>,
                         foundDoorParents |-> {}, foundDrawerParents |-> {}], 1)

\* data.sort((a, b) => a.index - b.index): a stable sort by index
RECURSIVE insertByIndex(_, _)
insertByIndex(sorted, d) ==
    IF sorted = << >> THEN << d >>
    ELSE IF sorted[Len(sorted)].index <= d.index THEN Append(sorted, d)
    ELSE Append(insertByIndex(SubSeq(sorted, 1, Len(sorted) - 1), d),
                sorted[Len(sorted)])

RECURSIVE sortByIndex(_)
sortByIndex(data) ==
    IF data = << >> THEN << >>
    ELSE insertByIndex(sortByIndex(SubSeq(data, 1, Len(data) - 1)), data[Len(data)])

\* mutant: panels registered as open
registeredOpen == TRUE

\* the flag every panel is registered with: doorStates.set(uuid, false)
registeredState == FALSE

\* a retried load: the callbacks may run again after a failure
loadPendingAgain == loadState # "loaded"

\* loader.load is called once, and one of its callbacks runs once
loadPending == loadState = "loading"

\* the nodes of gltf.scene: the groups, then the meshes in traversal order
sceneGraph(scene) ==
    LET n == Len(scene.objs)
    IN  [k \in 1..(n + Len(scene.meshes)) |->
            IF k <= n
            THEN [name |-> scene.objs[k].name, parent |-> scene.objs[k].up,
                  isMesh |-> FALSE]
            ELSE [name |-> "", parent |-> scene.meshes[k - n], isMesh |-> TRUE]]

\* the onLoad callback, given gltf.scene
onLoad(scene) ==
        LET t == traverse(scene)
            doorData == sortByIndex(t.doorData)
            drawerData == sortByIndex(t.drawerData)
            ds == [i \in 1..Len(doorData) |-> doorData[i].mesh]
            ws == [i \in 1..Len(drawerData) |-> drawerData[i].mesh]
        IN  /\ modelRef' = sceneGraph(scene)
            /\ doors' = ds
            /\ doorStates' = [m \in Range(ds) |-> registeredState]
            /\ doorOriginalX' = [m \in Range(ds) |-> scene.objs[m].x]
            /\ drawers' = ws
            /\ drawerStates' = [m \in Range(ws) |-> registeredState]
            /\ drawerOriginalZ' = [m \in Range(ws) |-> scene.objs[m].z]
            /\ drawerOriginalX' = [m \in Range(ws) |-> scene.objs[m].x]
            /\ position' = [m \in 1..Len(scene.objs) |->
                               [x |-> scene.objs[m].x, z |-> scene.objs[m].z]]
            /\ bboxSize' = [m \in 1..Len(scene.objs) |->
                               [x |-> scene.objs[m].sx, z |-> scene.objs[m].sz]]
            \* createDoorButtons: one button per registered panel, not active
            /\ doorBtn' = [i \in 0..Len(ds) - 1 |-> FALSE]
            /\ drawerBtn' = [i \in 0..Len(ws) - 1 |-> FALSE]
            /\ loadState' = "loaded"
            /\ UNCHANGED <<viewer, overlay, anims, timers, threw, call>>

\* loader.load onLoad
LoadOk ==
    /\ loadPending
    /\ \E scene \in Scenes : onLoad(scene)

\* loader.load onError
LoadError ==
    /\ loadPending
    /\ loadState' = "failed"
    /\ UNCHANGED <<viewer, doors, doorStates, doorOriginalX, drawers, drawerStates,
                   drawerOriginalX, drawerOriginalZ, position, bboxSize,
                   modelRef, overlay, doorBtn, drawerBtn, anims, timers, threw,
                   call>>

\* the tooltip element before any text is written
NoText == [label |-> "", number |-> 0, prompt |-> ""]

NoCall == [n |-> 0, op |-> "none", arg |-> None, quiet |-> TRUE, load |-> "loading",
           busy |-> FALSE, doorWas |-> << >>, drawerWas |-> << >>]

---------------------------------------------------------------------------
\* Product viewer (src/unnamed/part_000, class PhotorealisticViewer).  The
\* viewer is one record; a load request is [id, key], the id telling apart
\* the gltf.scene objects of two loads of the same file.  Triangle counts
\* are in units of 100 000.

MaxLoads == 2          \* model-select changes made by the user

HighPolyLimit == 2     \* this.stats.triangles > 200000

ModelKeys == {"marble", "sneaker", "carpet", "armchair", "rocking"}

\* triangles of a model file: below and above the high-poly limit
TriangleCounts == {1, 3}

NoModel == [id |-> None, key |-> "none"]

qualities == <<"ultra", "high", "medium">>

\* the fields after the constructor, setupRenderer and setupLights
constructed(assets, checked) ==
    [ model |-> NoModel,
      scene |-> {},                 \* the models attached to this.scene
      currentModelKey |-> "marble",
      quality |-> "medium",
      useDirectRendering |-> FALSE,
      shadowMapEnabled |-> TRUE,    \* renderer.shadowMap.enabled
      keyCastShadow |-> TRUE,       \* lights.key.castShadow
      shadowsChecked |-> checked,   \* #toggle-shadows
      ssaoEnabled |-> FALSE,        \* ssaoPass.enabled, once the pass exists
      bloomEnabled |-> FALSE,       \* bloomPass.enabled, once the pass exists
      cameraConfig |-> "none",      \* the configuration the camera preset came from
      triangles |-> 0,              \* stats.triangles
      pending |-> {},               \* loader.load calls whose callback has not run
      nextId |-> 0,
      rejected |-> FALSE,           \* a loadModel promise was rejected
      ready |-> FALSE,              \* init() got past loadModel: passes and listeners exist
      assets |-> assets ]           \* key -> triangles of the file at config.path

\* loadModel(modelKey) up to the loader.load call
loadModel(v, modelKey) ==
    LET removed == IF v.model # NoModel
                   THEN [v EXCEPT !.scene = @ \ {v.model}, !.model = NoModel]
                   ELSE v
    IN [removed EXCEPT !.triangles = 0,
                       !.currentModelKey = modelKey,
                       !.pending = @ \cup {[id |-> v.nextId, key |-> modelKey]},
                       !.nextId = @ + 1]

\* setCameraPreset: the preset is read from the configuration of currentModelKey
setCameraPreset(v) == [v EXCEPT !.cameraConfig = v.currentModelKey]

\* no configuration has a highPoly field: the mode depends on the count alone
highPoly(triangles) == triangles > HighPolyLimit

\* the onLoad callback of loader.load for request req
loaded(v, req) ==
    LET count == v.triangles + v.assets[req.key]
        added == [v EXCEPT !.model = req,
                           !.scene = @ \cup {req},
                           !.triangles = count,
                           !.pending = @ \ {req}]
        mode  == IF highPoly(count)
                 THEN [added EXCEPT !.ssaoEnabled = FALSE,
                                    !.bloomEnabled = FALSE,
                                    !.useDirectRendering = TRUE,
                                    !.shadowMapEnabled = FALSE,
                                    !.keyCastShadow = FALSE,
                                    !.shadowsChecked = FALSE]
                 ELSE [added EXCEPT !.useDirectRendering = FALSE,
                                    !.shadowMapEnabled = TRUE,
                                    !.keyCastShadow = TRUE]
    IN setCameraPreset(mode)

\* the rest of init() after the awaited loadModel: setupPostProcessing creates
\* the passes (enabled), setupEventListeners installs the handlers
initDone(v) ==
    IF v.ready THEN v
    ELSE [v EXCEPT !.ssaoEnabled = TRUE, !.bloomEnabled = TRUE, !.ready = TRUE]

toggleQuality(v) ==
    LET next == qualities[((indexOf(qualities, v.quality) + 1) % Len(qualities)) + 1]
        q    == [v EXCEPT !.quality = next]
    IN CASE next = "ultra"  -> [q EXCEPT !.shadowMapEnabled = TRUE,
                                         !.ssaoEnabled = TRUE,
                                         !.bloomEnabled = TRUE]
         [] next = "high"   -> [q EXCEPT !.shadowMapEnabled = TRUE,
                                         !.ssaoEnabled = TRUE,
                                         !.bloomEnabled = FALSE]
         [] next = "medium" -> [q EXCEPT !.shadowMapEnabled = FALSE,
                                         !.ssaoEnabled = FALSE,
                                         !.bloomEnabled = FALSE]

\* the change handler of #toggle-shadows: the box has just been flipped
toggleShadows(v) ==
    LET checked == ~v.shadowsChecked
    IN [v EXCEPT !.shadowsChecked = checked,
                 !.shadowMapEnabled = checked,
                 !.keyCastShadow = checked]

furniture == <<loadState, doors, doorStates, doorOriginalX, drawers, drawerStates,
               drawerOriginalX, drawerOriginalZ, position, bboxSize, modelRef,
               tooltip, containerPointer, doorBtn, drawerBtn, anims, timers,
               threw, call>>

ViewerStep(v) == viewer' = v /\ UNCHANGED furniture

\* a load completes: any pending request, in any order
ModelLoaded ==
    \E req \in viewer.pending :
        ViewerStep(IF req.id = 0 THEN initDone(loaded(viewer, req))
                   ELSE loaded(viewer, req))

\* a load fails: the promise is rejected, and init() stops if it was waiting
ModelLoadError ==
    \E req \in viewer.pending :
        ViewerStep([viewer EXCEPT !.pending = @ \ {req}, !.rejected = TRUE])

\* the change handler of #model-select: the select shows another key
ModelSelectChange ==
    /\ viewer.ready
    /\ viewer.nextId <= MaxLoads
    /\ \E modelKey \in ModelKeys \ {viewer.currentModelKey} :
           ViewerStep(loadModel(viewer, modelKey))

QualityClick == viewer.ready /\ ViewerStep(toggleQuality(viewer))

ShadowsChange == viewer.ready /\ ViewerStep(toggleShadows(viewer))

SsaoChange ==
    /\ viewer.ready
    /\ \E checked \in BOOLEAN : ViewerStep([viewer EXCEPT !.ssaoEnabled = checked])

BloomChange ==
    /\ viewer.ready
    /\ \E checked \in BOOLEAN : ViewerStep([viewer EXCEPT !.bloomEnabled = checked])

PresetClick == viewer.ready /\ ViewerStep(setCameraPreset(viewer))

\* the page of the furniture viewer, where the product viewer never starts
ViewerIdle == constructed([k \in ModelKeys |-> 1], TRUE)

Init ==
    /\ loadState = "loading"
    /\ doors = << >>
    /\ doorStates = << >>
    /\ doorOriginalX = << >>
    /\ drawers = << >>
    /\ drawerStates = << >>
    /\ drawerOriginalX = << >>
    /\ drawerOriginalZ = << >>
    /\ position = << >>
    /\ bboxSize = << >>
    /\ modelRef = << >>
    /\ tooltip = [visible |-> FALSE, text |-> NoText]
    /\ containerPointer = FALSE
    /\ doorBtn = << >>
    /\ drawerBtn = << >>
    /\ anims = {}
    /\ timers = {}
    /\ threw = FALSE
    /\ call = NoCall
    /\ viewer = ViewerIdle

---------------------------------------------------------------------------
\* The toggle orchestrator.  A handler runs to its end in one step; what it
\* leaves behind is m = [anims, timers, threw]: the tweens it started, the
\* continuations it scheduled, and whether it ended in an uncaught TypeError.

has(list, index) == index \in 0..Len(list) - 1
at(list, index) == list[index + 1]
max(a, b) == IF a >= b THEN a ELSE b

\* getSlidingAmount: Math.max(size.x, size.z) * 0.95
getSlidingAmount(door) ==
    (max(bboxSize[door].x, bboxSize[door].z) * 95) \div 100

\* getDrawerPullAmount: Math.max(size.z, size.x) * 0.35
getDrawerPullAmount(drawer) ==
    (max(bboxSize[drawer].z, bboxSize[drawer].x) * 35) \div 100

\* mutant: every door slides to the left
doorDirectionLeft(index) == -1

\* the direction table of proceedToggleDoor
doorDirection(index) ==
    IF index = 0 THEN -1 ELSE IF index = 1 THEN -1 ELSE 1

\* mutant: the two targets swapped (isOpen ? open target : original)
doorTargetXSwapped(index, door, isOpen) ==
    IF isOpen THEN doorOriginalX[door] + getSlidingAmount(door) * doorDirection(index)
    ELSE doorOriginalX[door]

\* targetX of proceedToggleDoor
doorTargetX(index, door, isOpen) ==
    IF isOpen THEN doorOriginalX[door]
    ELSE doorOriginalX[door] + getSlidingAmount(door) * doorDirection(index)

\* mutant: the door tween lasts twice as long
proceedToggleDoorSlow(m, index, door, isOpen) ==
    [m EXCEPT !.anims = @ \cup
        {[kind |-> "door", index |-> index, obj |-> door, isOpen |-> isOpen,
          axis |-> "x", target |-> doorTargetX(index, door, isOpen),
          left |-> 2 * DoorDuration]}]

\* mutant: the new tween overwrites the tweens of the same door (overwrite: true)
proceedToggleDoorOverwrite(m, index, door, isOpen) ==
    [m EXCEPT !.anims = {a \in @ : a.obj # door} \cup
        {[kind |-> "door", index |-> index, obj |-> door, isOpen |-> isOpen,
          axis |-> "x", target |-> doorTargetX(index, door, isOpen),
          left |-> DoorDuration]}]

\* gsap.to(door.position, {x: targetX, duration: 1.2, onComplete})
proceedToggleDoor(m, index, door, isOpen) ==
    [m EXCEPT !.anims = @ \cup
        {[kind |-> "door", index |-> index, obj |-> door, isOpen |-> isOpen,
          axis |-> "x", target |-> doorTargetX(index, door, isOpen),
          left |-> DoorDuration]}]

isTopDrawer(index) == index = 0 \/ index = 1

\* mutant: every drawer tween writes the Z coordinate
drawerAxisZ(index) == "z"

\* the axis and the target proceedToggleDrawer gives its tween
drawerAxis(index) == IF isTopDrawer(index) THEN "x" ELSE "z"

\* mutant: every drawer pulled in the positive direction of its axis
drawerTargetPositive(index, drawer, isOpen) ==
    LET original == IF isTopDrawer(index) THEN drawerOriginalX[drawer]
                    ELSE drawerOriginalZ[drawer]
    IN  IF isOpen THEN original ELSE original + getDrawerPullAmount(drawer)

drawerTarget(index, drawer, isOpen) ==
    IF isTopDrawer(index)
    THEN LET startX == drawerOriginalX[drawer]
         IN  IF isOpen THEN startX ELSE startX - getDrawerPullAmount(drawer)
    ELSE IF isOpen THEN drawerOriginalZ[drawer]
         ELSE drawerOriginalZ[drawer] + getDrawerPullAmount(drawer)

\* gsap.to(drawer.position, {x | z: target, duration: 0.8, onComplete})
proceedToggleDrawer(m, index, drawer, isOpen) ==
    [m EXCEPT !.anims = @ \cup
        {[kind |-> "drawer", index |-> index, obj |-> drawer, isOpen |-> isOpen,
          axis |-> drawerAxis(index), target |-> drawerTarget(index, drawer, isOpen),
          left |-> DrawerDuration]}]

\* setTimeout(() => proceedToggleDoor(index, door, isOpen), 800)
doorTimer(index, door, isOpen) ==
    [kind |-> "door", index |-> index, obj |-> door, isOpen |-> isOpen,
     left |-> DoorCloseDelay]

\* mutant: the drawer continuation after 800 ms instead of 900 ms
drawerTimerEarly(index, drawer, isOpen) ==
    [kind |-> "drawer", index |-> index, obj |-> drawer, isOpen |-> isOpen,
     left |-> DoorCloseDelay]

\* setTimeout(() => proceedToggleDrawer(index, drawer, isOpen), 900)
drawerTimer(index, drawer, isOpen) ==
    [kind |-> "drawer", index |-> index, obj |-> drawer, isOpen |-> isOpen,
     left |-> DrawerOpenDelay]

\* mutant: no dependent drawer is found (the index compared with a string key)
dependentDrawersNone(index) == {}

\* the drawers toggleDoor collects before it closes door `index`
dependentDrawers(index) ==
    {dIndex \in DOMAIN drawerToDoorMap :
        /\ drawerToDoorMap[dIndex] = index
        /\ has(drawers, dIndex)
        /\ drawerStates[at(drawers, dIndex)]}

\* mutant: the guard is missing and the handler dereferences undefined
noPanelThrows(m) == [m EXCEPT !.threw = TRUE]

\* if (!door) return;  if (!drawer) return;
noPanel(m) == m

RECURSIVE toggleDoor(_, _)

\* toggleDrawer(index, forceClose)
\* mutant: forceClose is ignored, the door is checked on every call
toggleDrawerChecksDoor(m, index, forceClose) ==
    IF m.threw THEN m
    ELSE IF ~has(drawers, index) THEN noPanel(m)
    ELSE LET drawer == at(drawers, index)
             isOpen == drawerStates[drawer]
         IN  IF ~isOpen /\ index \in DOMAIN drawerToDoorMap
             THEN LET dependentDoorIndex == drawerToDoorMap[index]
                  IN  IF ~has(doors, dependentDoorIndex)
                      THEN [m EXCEPT !.threw = TRUE]
                      ELSE IF ~doorStates[at(doors, dependentDoorIndex)]
                      THEN LET m1 == toggleDoor(m, dependentDoorIndex)
                           IN  [m1 EXCEPT !.timers = @ \cup {drawerTimer(index, drawer, isOpen)}]
                      ELSE proceedToggleDrawer(m, index, drawer, isOpen)
             ELSE proceedToggleDrawer(m, index, drawer, isOpen)

toggleDrawer(m, index, forceClose) ==
    IF m.threw THEN m
    ELSE IF ~has(drawers, index) THEN noPanel(m)
    ELSE LET drawer == at(drawers, index)
             isOpen == drawerStates[drawer]
         IN  IF ~isOpen /\ ~forceClose /\ index \in DOMAIN drawerToDoorMap
             THEN LET dependentDoorIndex == drawerToDoorMap[index]
                  IN  IF ~has(doors, dependentDoorIndex)
                      THEN [m EXCEPT !.threw = TRUE]   \* door.uuid of undefined
                      ELSE IF ~doorStates[at(doors, dependentDoorIndex)]
                      THEN LET m1 == toggleDoor(m, dependentDoorIndex)
                           IN  [m1 EXCEPT !.timers = @ \cup
                                    {drawerTimer(index, drawer, isOpen)}]
                      ELSE proceedToggleDrawer(m, index, drawer, isOpen)
             ELSE proceedToggleDrawer(m, index, drawer, isOpen)

\* mutant: every open drawer is force-closed, whatever door it is behind
RECURSIVE forceCloseAllFrom(_, _, _)
forceCloseAllFrom(m, ds, dIdx) ==
    IF dIdx > 5 THEN m
    ELSE forceCloseAllFrom(IF has(drawers, dIdx) /\ drawerStates[at(drawers, dIdx)]
                           THEN toggleDrawer(m, dIdx, TRUE) ELSE m,
                           ds, dIdx + 1)

\* dependentDrawers.forEach(dIdx => toggleDrawer(dIdx, true)), in key order
RECURSIVE forceCloseFrom(_, _, _)
forceCloseFrom(m, ds, dIdx) ==
    IF dIdx > 5 THEN m
    ELSE forceCloseFrom(IF dIdx \in ds THEN toggleDrawer(m, dIdx, TRUE) ELSE m,
                        ds, dIdx + 1)

\* mutant: a door with a tween in flight is taken to be where the tween leads
toggleDoorReverses(m, index) ==
    IF m.threw THEN m
    ELSE IF ~has(doors, index) THEN noPanel(m)
    ELSE LET door == at(doors, index)
             isOpen == IF \E a \in m.anims : a.obj = door
                       THEN ~doorStates[door] ELSE doorStates[door]
             deps == dependentDrawers(index)
         IN  IF isOpen /\ deps # {}
             THEN LET m1 == forceCloseFrom(m, deps, 0)
                  IN  [m1 EXCEPT !.timers = @ \cup {doorTimer(index, door, isOpen)}]
             ELSE proceedToggleDoor(m, index, door, isOpen)

\* toggleDoor(index)
toggleDoor(m, index) ==
    IF m.threw THEN m
    ELSE IF ~has(doors, index) THEN noPanel(m)
    ELSE LET door == at(doors, index)
             isOpen == doorStates[door]
             deps == dependentDrawers(index)
         IN  IF isOpen /\ deps # {}
             THEN LET m1 == forceCloseFrom(m, deps, 0)
                  IN  [m1 EXCEPT !.timers = @ \cup {doorTimer(index, door, isOpen)}]
             ELSE proceedToggleDoor(m, index, door, isOpen)

\* mutant: every panel is toggled
toggledByAllAlways(allClosed, currentState) == TRUE

\* the test of toggleAllDoors / toggleAllDrawers: which panels are toggled
toggledByAll(allClosed, currentState) == allClosed \/ currentState

\* toggleAllDoors()
RECURSIVE toggleAllDoorsFrom(_, _, _)
toggleAllDoorsFrom(m, allClosed, index) ==
    IF ~has(doors, index) THEN m
    ELSE toggleAllDoorsFrom(
            IF toggledByAll(allClosed, doorStates[at(doors, index)])
            THEN toggleDoor(m, index) ELSE m,
            allClosed, index + 1)

toggleAllDoors(m) ==
    toggleAllDoorsFrom(m, \A d \in DOMAIN doorStates : ~doorStates[d], 0)

\* toggleAllDrawers()
RECURSIVE toggleAllDrawersFrom(_, _, _)
toggleAllDrawersFrom(m, allClosed, index) ==
    IF ~has(drawers, index) THEN m
    ELSE toggleAllDrawersFrom(
            IF toggledByAll(allClosed, drawerStates[at(drawers, index)])
            THEN toggleDrawer(m, index, FALSE) ELSE m,
            allClosed, index + 1)

toggleAllDrawers(m) ==
    toggleAllDrawersFrom(m, \A d \in DOMAIN drawerStates : ~drawerStates[d], 0)

\* let o = hit; while (o && !list.includes(o)) o = o.parent;
\* the node itself or its nearest ancestor in the list; None above the scene
RECURSIVE owner(_, _)
owner(list, node) ==
    IF node \notin DOMAIN modelRef THEN None
    ELSE IF node \in Range(list) THEN node
    ELSE owner(list, modelRef[node].parent)

\* raycaster.intersectObjects(list, true): the meshes a ray can meet first
\* are the meshes of the listed groups and of their descendants
intersectable(list) ==
    {k \in DOMAIN modelRef : modelRef[k].isMesh /\ owner(list, k) # None}

\* mutant: drawers are tested before doors
onClickDrawersFirst(m, doorHit, drawerHit) ==
    LET doorMesh == owner(doors, doorHit)
        drawerMesh == owner(drawers, drawerHit)
    IN  IF drawerHit # None /\ drawerMesh # None
        THEN toggleDrawer(m, indexOf(drawers, drawerMesh), FALSE)
        ELSE IF doorHit # None /\ doorMesh # None
        THEN toggleDoor(m, indexOf(doors, doorMesh))
        ELSE m

\* onClick: doorHit / drawerHit is the first mesh the ray meets among the
\* doors / the drawers (None if it meets none); doors are checked first
onClick(m, doorHit, drawerHit) ==
    LET doorMesh == owner(doors, doorHit)
        drawerMesh == owner(drawers, drawerHit)
    IN  IF doorHit # None /\ doorMesh # None
        THEN toggleDoor(m, indexOf(doors, doorMesh))
        ELSE IF drawerHit # None /\ drawerMesh # None
        THEN toggleDrawer(m, indexOf(drawers, drawerMesh), FALSE)
        ELSE m

\* the text onMouseMove writes: `Kapak ${doorIndex + 1} - ${prompt}`
tooltipText(doorIndex, isOpen) ==
    [label |-> "Kapak", number |-> doorIndex + 1,
     prompt |-> IF isOpen THEN "Kapatmak icin tikla" ELSE "Acmak icin tikla"]

---------------------------------------------------------------------------
\* Steps of the event loop

Quiescent == anims = {} /\ timers = {}

\* a handler starts with what is in flight and has not thrown
entry == [anims |-> anims, timers |-> timers, threw |-> FALSE]

\* a tween of the panel is in flight, and no tween or timer of the panel
\* started from another value of its flag than the stored one
inFlightFrom(obj, flag) ==
    /\ \E a \in anims : a.obj = obj
    /\ \A e \in anims \cup timers : e.obj = obj => e.isOpen = flag

\* toggleDoor / toggleDrawer is called on a panel before the animation of an
\* earlier toggle of it has completed
busyAt(op, arg) ==
    \/ op = "toggleDoor" /\ has(doors, arg)
          /\ inFlightFrom(at(doors, arg), doorStates[at(doors, arg)])
    \/ op = "toggleDrawer" /\ has(drawers, arg)
          /\ inFlightFrom(at(drawers, arg), drawerStates[at(drawers, arg)])

\* a user-level call `op(arg)` whose handler leaves m behind
UserCall(op, arg, m) ==
    /\ anims' = m.anims
    /\ timers' = m.timers
    /\ threw' = (threw \/ m.threw)
    /\ call' = [n |-> call.n + 1, op |-> op, arg |-> arg, quiet |-> Quiescent,
                load |-> loadState, busy |-> busyAt(op, arg),
                doorWas |-> doorStates, drawerWas |-> drawerStates]
    /\ UNCHANGED <<viewer, registry, overlay, doorStates, drawerStates, position, doorBtn,
                   drawerBtn>>

CallToggleDoor ==
    \E index \in 0..Len(doors) :
        UserCall("toggleDoor", index, toggleDoor(entry, index))

CallToggleDrawer ==
    \E index \in 0..Len(drawers) :
        UserCall("toggleDrawer", index, toggleDrawer(entry, index, FALSE))

CallToggleAllDoors ==
    UserCall("toggleAllDoors", None, toggleAllDoors(entry))

CallToggleAllDrawers ==
    UserCall("toggleAllDrawers", None, toggleAllDrawers(entry))

Click ==
    \E doorHit \in {None} \cup intersectable(doors),
       drawerHit \in {None} \cup intersectable(drawers) :
        UserCall("onClick", <<doorHit, drawerHit>>, onClick(entry, doorHit, drawerHit))

\* mousemove: only the doors are tested; the pointer may be over a drawer too
MouseMove ==
    \E doorHit \in {None} \cup intersectable(doors),
       drawerHit \in {None} \cup intersectable(drawers) :
        /\ IF doorHit # None
           THEN LET doorMesh == owner(doors, doorHit)
                IN  /\ containerPointer' = TRUE
                    /\ tooltip' =
                          IF doorMesh # None
                          THEN [visible |-> TRUE,
                                text |-> tooltipText(indexOf(doors, doorMesh),
                                                     doorStates[doorMesh])]
                          ELSE tooltip
           ELSE /\ containerPointer' = FALSE
                /\ tooltip' = [tooltip EXCEPT !.visible = FALSE]
        /\ call' = [n |-> call.n + 1, op |-> "onMouseMove",
                    arg |-> <<doorHit, drawerHit>>, quiet |-> Quiescent,
                    load |-> loadState, busy |-> FALSE,
                    doorWas |-> doorStates,
                    drawerWas |-> drawerStates]
        /\ UNCHANGED <<viewer, registry, doorStates, drawerStates, position, doorBtn,
                       drawerBtn, anims, timers, threw>>

\* btn.classList.toggle('active', isOpen) on the drawer's button, if it exists
updateDrawerButtonState(index, isOpen) ==
    IF index \in DOMAIN drawerBtn THEN [drawerBtn EXCEPT ![index] = isOpen]
    ELSE drawerBtn

\* mutant: btn.classList.toggle('active') without the forced value
updateButtonStateFlip(index, isOpen) ==
    IF index \in DOMAIN doorBtn THEN [doorBtn EXCEPT ![index] = ~@] ELSE doorBtn

\* btn.classList.toggle('active', isOpen) on the door's button, if it exists
updateButtonState(index, isOpen) ==
    IF index \in DOMAIN doorBtn THEN [doorBtn EXCEPT ![index] = isOpen] ELSE doorBtn

\* onComplete of a tween: the tween has written its target, the flag flips to
\* !isOpen and updateButtonState / updateDrawerButtonState sets the class
AnimComplete ==
    \E a \in anims :
        /\ a.left = 0
        /\ anims' = anims \ {a}
        /\ position' = [position EXCEPT ![a.obj][a.axis] = a.target]
        /\ IF a.kind = "door"
           THEN /\ doorStates' = [doorStates EXCEPT ![a.obj] = ~a.isOpen]
                /\ doorBtn' = updateButtonState(a.index, ~a.isOpen)
                /\ UNCHANGED <<drawerStates, drawerBtn>>
           ELSE /\ drawerStates' = [drawerStates EXCEPT ![a.obj] = ~a.isOpen]
                /\ drawerBtn' = updateDrawerButtonState(a.index, ~a.isOpen)
                /\ UNCHANGED <<doorStates, doorBtn>>
        /\ UNCHANGED <<viewer, registry, overlay, timers, threw, call>>

\* a setTimeout continuation runs: proceedToggleDoor / proceedToggleDrawer with
\* the index, object and isOpen captured when it was scheduled
TimerFire ==
    \E t \in timers :
        /\ t.left = 0
        /\ LET m0 == [anims |-> anims, timers |-> timers \ {t}, threw |-> FALSE]
               m == IF t.kind = "door"
                    THEN proceedToggleDoor(m0, t.index, t.obj, t.isOpen)
                    ELSE proceedToggleDrawer(m0, t.index, t.obj, t.isOpen)
           IN  /\ anims' = m.anims
               /\ timers' = m.timers
        /\ UNCHANGED <<viewer, registry, overlay, doorStates, drawerStates, position, doorBtn,
                       drawerBtn, threw, call>>

\* 100 ms pass: nothing is due, and something is in flight
Tick ==
    /\ ~Quiescent
    /\ \A e \in anims \cup timers : e.left > 0
    /\ anims' = {[a EXCEPT !.left = @ - 1] : a \in anims}
    /\ timers' = {[t EXCEPT !.left = @ - 1] : t \in timers}
    /\ UNCHANGED <<viewer, registry, overlay, doorStates, drawerStates, position, doorBtn,
                   drawerBtn, threw, call>>

Advance == AnimComplete \/ TimerFire \/ Tick

\* the user calls at any time, also while animations are in flight
MayCall == call.n < MaxOps

Next ==
    \/ LoadOk
    \/ LoadError
    \/ MayCall /\ CallToggleDoor
    \/ MayCall /\ CallToggleDrawer
    \/ MayCall /\ CallToggleAllDoors
    \/ MayCall /\ CallToggleAllDrawers
    \/ MayCall /\ Click
    \/ MayCall /\ MouseMove
    \/ AnimComplete
    \/ TimerFire
    \/ Tick

Spec == Init /\ [][Next]_vars

\* the event loop keeps running: frames and timers that are due are served
FairSpec == Spec /\ WF_vars(Advance)

\* One call at a time: the user waits for the animations of a call to end
\* before the next call ("with no further user input").
MayCallSeq == Quiescent /\ call.n < MaxSeqOps

SeqNext ==
    \/ LoadOk
    \/ LoadError
    \/ MayCallSeq /\ CallToggleDoor
    \/ MayCallSeq /\ CallToggleDrawer
    \/ MayCallSeq /\ CallToggleAllDoors
    \/ MayCallSeq /\ CallToggleAllDrawers
    \/ MayCallSeq /\ Click
    \/ MayCallSeq /\ MouseMove
    \/ AnimComplete
    \/ TimerFire
    \/ Tick

SeqSpec == Init /\ [][SeqNext]_vars /\ WF_vars(Advance)

\* Calls made one at a time, except that the latest toggleDoor / toggleDrawer
\* may be made again while what it started is still in flight (a second press
\* of the same button).
Repeat ==
    /\ ~Quiescent
    /\ call.n < MaxSeqOps
    /\ \/ /\ call.op = "toggleDoor"
          /\ UserCall("toggleDoor", call.arg, toggleDoor(entry, call.arg))
       \/ /\ call.op = "toggleDrawer"
          /\ UserCall("toggleDrawer", call.arg, toggleDrawer(entry, call.arg, FALSE))

ReentryNext == SeqNext \/ Repeat

ReentrySpec == Init /\ [][ReentryNext]_vars /\ WF_vars(Advance)

\* Panel discovery alone, over scene graphs in which a known name is carried
\* by more than one group, and in which any of the known names may be absent:
\* two groups named Box2449, two named Plane093, the right door, a Z-axis
\* drawer and the cabinet body, with up to MaxMeshes meshes among them (a
\* group without a mesh is not met by the traversal).
DiscoveryObjs ==
    << Obj("Box2449", -100, 50, 100, 4),
       Obj("Box2449", 100, 50, 100, 4),
       Obj("Plane093", -100, 0, 40, 80),
       Obj("Plane093", 0, 0, 40, 80),
       Obj("Box2442", 100, 50, 100, 4),
       Obj("Box66787348", 0, 20, 80, 40),
       Obj("Body", 0, 0, 300, 60) >>

\* traverse is depth first: the meshes of one group are met one after another
contiguous(meshes) ==
    \A i, j, k \in DOMAIN meshes :
        i < j /\ j < k /\ meshes[i] = meshes[k] => meshes[j] = meshes[i]

DiscoveryScenes ==
    {[objs |-> DiscoveryObjs, meshes |-> ms] :
        ms \in {q \in UNION {[1..n -> 1..Len(DiscoveryObjs)] : n \in 0..MaxMeshes} :
                  contiguous(q)}}

LoadDiscovered ==
    /\ loadPending
    /\ \E scene \in DiscoveryScenes : onLoad(scene)

DiscoveryNext == LoadDiscovered \/ LoadError

DiscoverySpec == Init /\ [][DiscoveryNext]_vars

---------------------------------------------------------------------------
\* Vocabulary of the claims

DoorIdx == 0..Len(doors) - 1
DrawerIdx == 0..Len(drawers) - 1
doorOpen(i) == doorStates[at(doors, i)]
drawerOpen(i) == drawerStates[at(drawers, i)]
\* drawer i has a controlling door that is registered
controlled(i) == i \in DOMAIN drawerToDoorMap /\ has(doors, drawerToDoorMap[i])

\* tweens started in this step: not in flight before it, their whole duration left
startedAnims ==
    {a \in anims' \ anims :
        a.left = IF a.kind = "door" THEN DoorDuration ELSE DrawerDuration}

---------------------------------------------------------------------------
\* C1: in every reachable state no drawer is marked open while its
\* controlling door (drawerToDoorMap) is marked closed.
C1_NoOpenDrawerBehindClosedDoor ==
    \A i \in DrawerIdx :
        (drawerOpen(i) /\ controlled(i)) => doorOpen(drawerToDoorMap[i])

---------------------------------------------------------------------------
\* a tween that opens drawer i / closes door d
opensDrawer(a) == a.kind = "drawer" /\ ~a.isOpen
closesDoor(a) == a.kind = "door" /\ a.isOpen

\* C2 (as claimed): a drawer's closed-to-open animation never starts while
\* its controlling door is still marked closed.
C2_DrawerOpensOnlyBehindOpenDoor ==
    [][\A a \in startedAnims :
         (opensDrawer(a) /\ controlled(a.index))
            => doorOpen(drawerToDoorMap[a.index])]_vars

\* C2 (amended): a drawer's closed-to-open animation starts only when its
\* controlling door is marked open or the door's open animation is in flight
\* with at most DoorDuration - DrawerOpenDelay (300 ms) left.
C2_DrawerOpensBehindOpeningDoor ==
    [][\A a \in startedAnims :
         (opensDrawer(a) /\ controlled(a.index))
            => \/ doorOpen(drawerToDoorMap[a.index])
               \/ \E d \in anims' :
                    /\ d.kind = "door"
                    /\ d.index = drawerToDoorMap[a.index]
                    /\ ~d.isOpen
                    /\ d.left <= DoorDuration - DrawerOpenDelay]_vars

\* C2 witness: the deferred drawer animation has just started, the door is
\* still marked closed and its open animation has 300 ms left
C2_Witness ==
    \E a \in anims :
        /\ opensDrawer(a) /\ controlled(a.index) /\ a.left = DrawerDuration
        /\ ~doorOpen(drawerToDoorMap[a.index])
        /\ \E d \in anims : /\ d.kind = "door" /\ ~d.isOpen
                            /\ d.index = drawerToDoorMap[a.index]
                            /\ d.left = DoorDuration - DrawerOpenDelay

---------------------------------------------------------------------------
\* C3: when a door's open-to-closed animation starts, every drawer that
\* depends on the door is marked closed and has no close animation in flight.
C3_DoorClosesAfterItsDrawers ==
    [][\A a \in startedAnims :
         closesDoor(a)
            => \A i \in DrawerIdx :
                  (i \in DOMAIN drawerToDoorMap /\ drawerToDoorMap[i] = a.index)
                     => /\ ~drawerOpen(i)
                        /\ ~\E c \in anims' :
                              c.kind = "drawer" /\ c.index = i /\ c.isOpen]_vars

---------------------------------------------------------------------------
\* the latest call was op(arg), made with nothing in flight on a loaded model
calledQuiet(op, arg) ==
    call.op = op /\ call.arg = arg /\ call.quiet /\ loadState = "loaded"

\* the flag door d / drawer i had when the latest call was made
doorWas(d, flag) ==
    /\ has(doors, d) /\ at(doors, d) \in DOMAIN call.doorWas
    /\ call.doorWas[at(doors, d)] = flag
drawerWas(i, flag) ==
    /\ has(drawers, i) /\ at(drawers, i) \in DOMAIN call.drawerWas
    /\ call.drawerWas[at(drawers, i)] = flag

\* the drawers of door d that were marked open when the latest call was made
openDrawersWas(d) ==
    {i \in DrawerIdx :
        /\ i \in DOMAIN drawerToDoorMap /\ drawerToDoorMap[i] = d
        /\ drawerWas(i, TRUE)}

\* toggleDoor(d) was called on an open door with N >= 1 open drawers behind it
C4_Case(d) ==
    /\ calledQuiet("toggleDoor", d)
    /\ doorWas(d, TRUE)
    /\ openDrawersWas(d) # {}

\* C4: from a door marked open with N >= 1 of its drawers marked open and
\* nothing in flight, one toggleDoor and no further input: the N drawers are
\* all marked closed strictly before the door is marked closed, and the door
\* is eventually marked closed.
C4_DrawersCloseBeforeDoor ==
    /\ [][\A d \in DoorIdx :
            (C4_Case(d) /\ doorOpen(d) /\ ~doorOpen(d)')
               => \A i \in openDrawersWas(d) : ~drawerOpen(i)]_vars
    /\ \A d \in 0..2 : C4_Case(d) ~> (has(doors, d) /\ ~doorOpen(d))

\* C4 witness: the door has been marked closed after its five drawers
C4_Witness ==
    \E d \in DoorIdx :
        /\ C4_Case(d) /\ Cardinality(openDrawersWas(d)) > 1
        /\ ~doorOpen(d) /\ \A i \in openDrawersWas(d) : ~drawerOpen(i)

---------------------------------------------------------------------------
\* toggleDrawer(i) was called on a closed drawer behind a closed door
C5_Case(i) ==
    /\ calledQuiet("toggleDrawer", i) /\ controlled(i)
    /\ drawerWas(i, FALSE)
    /\ doorWas(drawerToDoorMap[i], FALSE)

\* C5: from door[1] and drawer[2] closed and nothing in flight (and so for
\* every drawer and its controlling door), one toggleDrawer and no further
\* input: both end up marked open, the door marked open before the drawer.
C5_DoorOpensThenDrawer ==
    /\ [][\A i \in DrawerIdx :
            (C5_Case(i) /\ ~drawerOpen(i) /\ drawerOpen(i)')
               => doorOpen(drawerToDoorMap[i])]_vars
    /\ \A i \in 0..5 :
          C5_Case(i) ~> (/\ has(drawers, i) /\ controlled(i)
                         /\ drawerOpen(i) /\ doorOpen(drawerToDoorMap[i]))

\* C5 witness: drawer[2] and door[1] are both marked open after toggleDrawer(2)
C5_Witness ==
    /\ has(drawers, 2) /\ C5_Case(2)
    /\ drawerOpen(2) /\ doorOpen(1) /\ Quiescent

---------------------------------------------------------------------------
\* C6: right after the load callback has registered the panels, every
\* registered door and drawer has its open flag false.
C6_RegisteredClosed ==
    [][(loadState = "loading" /\ loadState' = "loaded")
         => /\ \A i \in 1..Len(doors') :
                 doors'[i] \in DOMAIN doorStates' /\ ~doorStates'[doors'[i]]
            /\ \A i \in 1..Len(drawers') :
                 drawers'[i] \in DOMAIN drawerStates' /\ ~drawerStates'[drawers'[i]]]_vars

\* C6 witness: panels have been registered, and no tween has run since
C6_Witness ==
    /\ loadState = "loaded" /\ Len(doors) = 3 /\ Len(drawers) = 6
    /\ Quiescent /\ call.n = 0

---------------------------------------------------------------------------
\* object ids of the scenes, for the quantifiers of the temporal formulas
ObjIds == 1..10

allWereClosed(was) == \A o \in DOMAIN was : ~was[o]

\* toggleAllDoors() was called with nothing in flight and doors registered
C7_Case ==
    /\ calledQuiet("toggleAllDoors", None)
    /\ DOMAIN call.doorWas = DOMAIN doorStates /\ doors # << >>

\* a tween or a timer of door o is in flight
doorInFlight(o) ==
    \E e \in anims \cup timers : e.kind = "door" /\ e.obj = o

\* C7: toggleAllDoors with every door marked closed: every registered door
\* eventually becomes marked open; with at least one door marked open: every
\* door that was open eventually becomes marked closed, and every door that
\* was closed stays marked closed with no animation started on it.
C7_ToggleAllDoors ==
    /\ (C7_Case /\ allWereClosed(call.doorWas))
          ~> (\A o \in DOMAIN doorStates : doorStates[o])
    /\ \A o \in ObjIds :
          (C7_Case /\ o \in DOMAIN call.doorWas /\ call.doorWas[o])
             ~> (o \in DOMAIN doorStates /\ ~doorStates[o])
    /\ [](C7_Case /\ ~allWereClosed(call.doorWas)
            => \A o \in DOMAIN doorStates :
                  ~call.doorWas[o] => (~doorStates[o] /\ ~doorInFlight(o)))

\* C7 witness: toggleAllDoors has closed the open doors and left a closed one
C7_Witness ==
    /\ C7_Case /\ Quiescent
    /\ \E o \in DOMAIN doorStates : call.doorWas[o]
    /\ \E o \in DOMAIN doorStates : ~call.doorWas[o]
    /\ \A o \in DOMAIN doorStates : ~doorStates[o]

---------------------------------------------------------------------------
\* toggleAllDrawers() was called with nothing in flight and drawers registered
C8_Case ==
    /\ calledQuiet("toggleAllDrawers", None)
    /\ DOMAIN call.drawerWas = DOMAIN drawerStates /\ drawers # << >>

\* C8: toggleAllDrawers with every drawer marked closed: every registered
\* drawer becomes marked open, whatever the state of the doors (stated of the
\* state in which the animations of the call have ended); with at least one
\* drawer marked open: the open ones end marked closed, the closed ones stay.
C8_ToggleAllDrawers ==
    (C8_Case /\ Quiescent)
       => IF allWereClosed(call.drawerWas)
          THEN \A o \in DOMAIN drawerStates : drawerStates[o]
          ELSE \A o \in DOMAIN drawerStates : ~drawerStates[o]

---------------------------------------------------------------------------
\* a tween of object o is in flight
tweening(o) == \E a \in anims : a.obj = o

\* C9: a door or drawer that is marked closed again after it was toggled
\* open and then closed, both animations completed, stands exactly at the
\* offset recorded at registration (no drift).  Stated of every state: a
\* panel marked closed with no tween in flight is at its original offset.
C9_RoundTripNoDrift ==
    /\ \A i \in DoorIdx :
          (~doorOpen(i) /\ ~tweening(at(doors, i)))
             => position[at(doors, i)].x = doorOriginalX[at(doors, i)]
    /\ \A i \in DrawerIdx :
          (~drawerOpen(i) /\ ~tweening(at(drawers, i)))
             => IF isTopDrawer(i)
                THEN position[at(drawers, i)].x = drawerOriginalX[at(drawers, i)]
                ELSE position[at(drawers, i)].z = drawerOriginalZ[at(drawers, i)]

\* C9 witness: door[2] and drawer[2] have each gone through a round trip
\* (the latest call closed a panel that an earlier call had opened)
C9_Witness ==
    /\ Quiescent /\ call.n = 2 /\ call.quiet /\ has(drawers, 2)
    /\ \/ call.op = "toggleDoor" /\ call.arg = 2 /\ doorWas(2, TRUE) /\ ~doorOpen(2)
       \/ /\ call.op = "toggleDrawer" /\ call.arg = 2 /\ drawerWas(2, TRUE)
          /\ ~drawerOpen(2)

---------------------------------------------------------------------------
\* C10: toggleDoor(i) and toggleDrawer(i) with an index that has no
\* registered panel raise no error, change no flag and no position, and start
\* no animation and no timer.
C10_MissingPanelIsNoOp ==
    [][(/\ call' # call
        /\ \/ call'.op = "toggleDoor" /\ ~has(doors, call'.arg)
           \/ call'.op = "toggleDrawer" /\ ~has(drawers, call'.arg))
         => UNCHANGED <<doorStates, drawerStates, position, doorBtn, drawerBtn,
                        anims, timers, threw>>]_vars

\* C10 witness: toggleDoor(3) has been called on the three registered doors
C10_Witness ==
    /\ loadState = "loaded" /\ Len(doors) = 3 /\ Len(drawers) = 6
    /\ \/ call.op = "toggleDoor" /\ call.arg = 3
       \/ call.op = "toggleDrawer" /\ call.arg = 6


---------------------------------------------------------------------------
\* C11: toggleDrawer(i) on a registered closed drawer whose controlling door
\* index drawerToDoorMap[i] has no registered door raises no error and leaves
\* every door's state unchanged.

\* drawer i is registered and marked closed, and doors[drawerToDoorMap[i]] is
\* undefined
orphanClosed(i) ==
    /\ has(drawers, i)
    /\ ~drawerOpen(i)
    /\ i \in DOMAIN drawerToDoorMap
    /\ ~has(doors, drawerToDoorMap[i])

C11_MissingDoorIsSilent ==
    [][ \A i \in DrawerIdx :
          ( /\ orphanClosed(i)
            /\ call'.n = call.n + 1
            /\ call'.op = "toggleDrawer"
            /\ call'.arg = i )
          => /\ threw' = threw
             /\ doorStates' = doorStates ]_vars


---------------------------------------------------------------------------
\* C12: if the asset load fails, the doors and drawers registries stay empty
\* for the rest of the session, and every later toggleDoor, toggleDrawer,
\* toggleAllDoors, toggleAllDrawers and pointer click changes no state and
\* starts no animation or timer.

\* the state of the program (everything but the history of calls)
program == <<loadState, doors, doorStates, doorOriginalX, drawers, drawerStates,
             drawerOriginalX, drawerOriginalZ, position, bboxSize, modelRef,
             tooltip, containerPointer, doorBtn, drawerBtn, anims, timers, threw>>

C12_FailedLoadIsTerminal ==
    /\ [](loadState = "failed" =>
            /\ doors = << >> /\ drawers = << >>
            /\ doorStates = << >> /\ drawerStates = << >>
            /\ anims = {} /\ timers = {} /\ ~threw)
    /\ [][loadState = "failed" => UNCHANGED program]_vars

\* the second of two calls made after the load had failed has returned
C12_Witness ==
    /\ loadState = "failed"
    /\ call.n = 2
    /\ call.load = "failed"
    /\ call.op \in {"toggleAllDoors", "toggleAllDrawers", "onClick"}

---------------------------------------------------------------------------
\* C13: for every drawer index, the open target position of the drawer is its
\* original offset plus a positive travel distance along its motion axis, and
\* its closed target is the original offset.

\* the original offset of the drawer of tween a along the axis of the tween
drawerOffset(a) ==
    IF a.axis = "x" THEN drawerOriginalX[a.obj] ELSE drawerOriginalZ[a.obj]

drawerTweens == {a \in anims : a.kind = "drawer"}

\* as claimed: every drawer slides in the positive direction
C13_DrawerSlidesPositive ==
    \A a \in drawerTweens :
        /\ getDrawerPullAmount(a.obj) > 0
        /\ a.target = IF a.isOpen THEN drawerOffset(a)
                      ELSE drawerOffset(a) + getDrawerPullAmount(a.obj)

\* C13 (amended): the closed target of every drawer is its original offset;
\* the open target is the original Z offset plus the travel distance for the
\* drawers of index 2 and up, and the original X offset minus the travel
\* distance for the top drawers (index 0 and 1); the travel distance is
\* positive.
C13_DrawerTargets ==
    \A a \in drawerTweens :
        /\ getDrawerPullAmount(a.obj) > 0
        /\ a.axis = (IF a.index \in {0, 1} THEN "x" ELSE "z")
        /\ a.target = IF a.isOpen THEN drawerOffset(a)
                      ELSE IF a.index \in {0, 1}
                      THEN drawerOffset(a) - getDrawerPullAmount(a.obj)
                      ELSE drawerOffset(a) + getDrawerPullAmount(a.obj)

\* a top drawer and another drawer are opening, and a drawer is closing
C13_Witness ==
    /\ \E a, b \in drawerTweens :
          ~a.isOpen /\ ~b.isOpen /\ a.index \in {0, 1} /\ b.index > 1
    /\ \E c \in drawerTweens : c.isOpen

---------------------------------------------------------------------------
\* C14: for every door, the open target on the X axis is original +
\* travelDistance * direction, where direction is -1 for the left-indexed
\* doors (indices 0 and 1) and +1 for the right-indexed door (index 2), and
\* the closed target is the original X offset.

doorTweens == {a \in anims : a.kind = "door"}

C14_DoorTargets ==
    \A a \in doorTweens :
        /\ a.index \in {0, 1, 2}
        /\ a.axis = "x"
        /\ a.target = IF a.isOpen THEN doorOriginalX[a.obj]
                      ELSE IF a.index \in {0, 1}
                      THEN doorOriginalX[a.obj] - getSlidingAmount(a.obj)
                      ELSE doorOriginalX[a.obj] + getSlidingAmount(a.obj)

\* the three doors are opening at once
C14_Witness ==
    \A i \in {0, 1, 2} : \E a \in doorTweens : a.index = i /\ ~a.isOpen

---------------------------------------------------------------------------
\* C15: a panel's stored open flag changes only in an animation-completion
\* callback, never at the time toggle is called, and each such callback sets
\* the 'active' class of the panel's button to the new flag value in the same
\* step; hence in every reachable state each door/drawer button is active
\* exactly when its panel is marked open.

\* the stored flag of some registered panel changes in this step
flagChanges ==
    /\ loadState = "loaded"
    /\ doorStates' # doorStates \/ drawerStates' # drawerStates

\* this step is the onComplete of tween a: it sets the flag and the button
completes(a) ==
    /\ a.left = 0
    /\ a \notin anims'
    /\ call' = call
    /\ IF a.kind = "door"
       THEN /\ doorStates'[a.obj] = ~a.isOpen
            /\ doorBtn'[a.index] = ~a.isOpen
            /\ at(doors, a.index) = a.obj
       ELSE /\ drawerStates'[a.obj] = ~a.isOpen
            /\ drawerBtn'[a.index] = ~a.isOpen
            /\ at(drawers, a.index) = a.obj

C15_ButtonsFollowFlags ==
    /\ [][flagChanges => \E a \in anims : completes(a)]_vars
    /\ [](/\ \A i \in DoorIdx : doorBtn[i] = doorOpen(i)
          /\ \A i \in DrawerIdx : drawerBtn[i] = drawerOpen(i))

\* a door and a drawer are marked open, their buttons active, after two
\* calls
C15_Witness ==
    /\ call.n = 2
    /\ \E i \in DoorIdx : doorOpen(i) /\ doorBtn[i]
    /\ \E i \in DrawerIdx : drawerOpen(i) /\ drawerBtn[i]
    /\ \E i \in DoorIdx : ~doorOpen(i) /\ ~doorBtn[i]

---------------------------------------------------------------------------
\* C16: on a click whose ray hits both a door and a drawer, only the door is
\* toggled (doors take priority); a click that hits any sub-mesh resolves to
\* its owning registered Panel and invokes exactly one toggle for that Panel;
\* a click that hits no Panel toggles nothing.

\* the nodes above a node of the scene graph, the node itself included
RECURSIVE ancestry(_)
ancestry(node) ==
    IF node \notin DOMAIN modelRef THEN {}
    ELSE {node} \cup ancestry(modelRef[node].parent)

\* this step has the effect of a handler that leaves m behind, and no other
effectOf(m) ==
    /\ anims' = m.anims
    /\ timers' = m.timers
    /\ threw' = (threw \/ m.threw)
    /\ UNCHANGED <<registry, overlay, doorStates, drawerStates, position,
                   doorBtn, drawerBtn>>

\* this step is a click with the door hit and the drawer hit of call'.arg
clicked == call'.n = call.n + 1 /\ call'.op = "onClick"

C16_ClickTogglesOnePanel ==
    [][clicked =>
        LET doorHit == call'.arg[1]
            drawerHit == call'.arg[2]
        IN  IF doorHit # None
            THEN \E i \in DoorIdx :
                    /\ ancestry(doorHit) \cap Range(doors) = {at(doors, i)}
                    /\ effectOf(toggleDoor(entry, i))
            ELSE IF drawerHit # None
            THEN \E i \in DrawerIdx :
                    /\ ancestry(drawerHit) \cap Range(drawers) = {at(drawers, i)}
                    /\ effectOf(toggleDrawer(entry, i, FALSE))
            ELSE UNCHANGED program]_vars

\* a click has hit a mesh two levels below a door group, and a drawer: the
\* door's tween is in flight and nothing else
C16_Witness ==
    /\ call.op = "onClick"
    /\ call.arg[1] # None /\ call.arg[2] # None
    /\ modelRef[call.arg[1]].parent \notin Range(doors)
    /\ \E a \in anims : anims = {a} /\ a.kind = "door" /\ a.left = DoorDuration
    /\ timers = {}

---------------------------------------------------------------------------
\* C17: on every pointer move, if the pointer is over any registered Panel
\* (door or drawer) the tooltip is visible and shows that Panel's index with
\* the prompt matching its current stored open flag (open: click to close;
\* closed: click to open); if no Panel is under the pointer the tooltip is
\* hidden.

\* this step is a pointer move with the door hit and the drawer hit of call'.arg
moved == call'.n = call.n + 1 /\ call'.op = "onMouseMove"

\* the tooltip is shown after this step, with the number of the panel of
\* 0-based index i and the prompt for the flag isOpen
shows(i, isOpen) ==
    /\ tooltip'.visible
    /\ tooltip'.text.number = i + 1
    /\ tooltip'.text.prompt =
          IF isOpen THEN "Kapatmak icin tikla" ELSE "Acmak icin tikla"

C17_TooltipFollowsPointer ==
    [][moved =>
        LET doorHit == call'.arg[1]
            drawerHit == call'.arg[2]
        IN  IF doorHit # None
            THEN \E i \in DoorIdx :
                    /\ at(doors, i) \in ancestry(doorHit)
                    /\ shows(i, doorOpen(i))
            ELSE IF drawerHit # None
            THEN \E i \in DrawerIdx :
                    /\ at(drawers, i) \in ancestry(drawerHit)
                    /\ shows(i, drawerOpen(i))
            ELSE ~tooltip'.visible]_vars

---------------------------------------------------------------------------
\* C18: during panel discovery, deduplication is by parent identity, not by
\* name: when a known door/drawer name occurs under two different parent
\* objects, each distinct parent is registered once (first occurrence per
\* parent), and several meshes sharing one parent yield a single Panel.

\* the groups named by one of the names that are the parent of a mesh
namedParents(names) ==
    {g \in DOMAIN modelRef :
        /\ modelRef[g].name \in Range(names)
        /\ \E k \in DOMAIN modelRef : modelRef[k].isMesh /\ modelRef[k].parent = g}

\* every one of the groups is in the list, once, and nothing else is
registeredOnce(list, groups) ==
    /\ Range(list) = groups
    /\ Len(list) = Cardinality(groups)

C18_DedupByParentIdentity ==
    loadState = "loaded" =>
        /\ registeredOnce(doors, namedParents(doorNames))
        /\ registeredOnce(drawers, namedParents(drawerNames))

---------------------------------------------------------------------------
\* C19: the set of drawers that toggleDoor(d) force-closes before closing door
\* d is exactly the set of registered drawers i with drawerToDoorMap[i] = d
\* that are marked open at call time (drawer 0 -> door 0, drawers 1..5 ->
\* door 1, door 2 controls none); drawers of other doors are not touched.

\* the drawers behind door d
behind(d) == IF d = 0 THEN {0} ELSE IF d = 1 THEN 1..5 ELSE {}

\* this step is the call toggleDoor(d) on a door marked open
closingCall(d) ==
    /\ call'.n = call.n + 1
    /\ call'.op = "toggleDoor"
    /\ call'.arg = d
    /\ has(doors, d)
    /\ doorOpen(d)

C19_ForceClosesOpenDrawersOfDoor ==
    [][\A d \in DoorIdx :
        closingCall(d) =>
            LET open == {i \in behind(d) \cap DrawerIdx : drawerOpen(i)}
            IN  /\ \A a \in startedAnims :
                      a.kind = "drawer" =>
                          a.index \in open /\ a.isOpen /\ a.obj = at(drawers, a.index)
                /\ \A i \in open :
                      \E a \in anims' :
                          /\ a.kind = "drawer" /\ a.index = i /\ a.isOpen
                          /\ a.left = DrawerDuration
                /\ timers' \ timers \subseteq {doorTimer(d, at(doors, d), TRUE)}
                /\ open # {} <=> doorTimer(d, at(doors, d), TRUE) \in timers'
      ]_vars

\* toggleDoor(1) was called with drawer 2 open behind it, drawer 3 closed, and
\* drawer 0 open behind door 0: only drawer 2 is closing
C19_Witness ==
    /\ call.op = "toggleDoor" /\ call.arg = 1 /\ doorWas(1, TRUE)
    /\ drawerWas(0, TRUE) /\ drawerWas(2, TRUE) /\ drawerWas(3, FALSE)
    /\ {a.index : a \in drawerTweens} = {2}
    /\ \A a \in drawerTweens : a.isOpen

---------------------------------------------------------------------------
\* C20: the force-close path toggleDrawer(i, true) used by toggleDoor never
\* invokes toggleDoor and never schedules a deferred timer: it starts the
\* drawer's animation immediately regardless of the controlling door's state,
\* and from toggleDoor it is only ever applied to drawers marked open, so it
\* always starts a close animation.

\* the tween of drawer i that proceedToggleDrawer starts in the current state
drawerTween(i) ==
    [kind |-> "drawer", index |-> i, obj |-> at(drawers, i),
     isOpen |-> drawerOpen(i), axis |-> drawerAxis(i),
     target |-> drawerTarget(i, at(drawers, i), drawerOpen(i)),
     left |-> DrawerDuration]

\* toggleDrawer(i, true) called now adds the drawer's tween and nothing else:
\* no door tween, no timer, no error, whatever the door's flag
forcedIsImmediate(i) ==
    LET m == toggleDrawer(entry, i, TRUE)
    IN  /\ m.anims = anims \cup {drawerTween(i)}
        /\ m.timers = timers
        /\ ~m.threw

\* this step is a call that runs toggleDoor and no unforced toggleDrawer
doorCall ==
    /\ call'.n = call.n + 1
    /\ \/ call'.op \in {"toggleDoor", "toggleAllDoors"}
       \/ call'.op = "onClick" /\ call'.arg[1] # None

C20_ForceCloseIsImmediate ==
    /\ [](\A i \in DrawerIdx : forcedIsImmediate(i))
    /\ [][doorCall =>
            \A a \in startedAnims :
                a.kind = "drawer" =>
                    /\ a.isOpen
                    /\ drawerOpen(a.index)
                    /\ a = drawerTween(a.index)
                    /\ \A t \in timers' \ timers : t.kind = "door"]_vars

\* toggleDoor has force-closed an open drawer behind an open door: the
\* drawer's close tween has started, the door's tween has not
C20_Witness ==
    /\ call.op \in {"toggleDoor", "toggleAllDoors"}
    /\ \E a \in drawerTweens :
          /\ a.isOpen /\ a.left = DrawerDuration
          /\ drawerWas(a.index, TRUE)
          /\ doorWas(drawerToDoorMap[a.index], TRUE)
    /\ doorTweens = {}
    /\ \E t \in timers : t.kind = "door" /\ t.left = DoorCloseDelay
    /\ \E i \in DrawerIdx : ~drawerOpen(i) /\ controlled(i) /\ ~doorOpen(drawerToDoorMap[i])

---------------------------------------------------------------------------
\* C21: every animation that has been started, and every deferred
\* continuation that has been scheduled, eventually runs to completion: no
\* later toggle cancels it, so after any finite sequence of user operations
\* the system reaches a quiescent state with no animation in flight and no
\* timer pending.

\* 100 ms less of e are left after this step
ticked(e, after) == e.left > 0 /\ [e EXCEPT !.left = @ - 1] \in after

\* this step runs the continuation of timer t: the tween it starts is in flight
continues(t) ==
    /\ t.left = 0
    /\ t \notin timers'
    /\ \E a \in anims' :
          /\ a.kind = t.kind /\ a.index = t.index /\ a.obj = t.obj
          /\ a.isOpen = t.isOpen
          /\ a.left = IF t.kind = "door" THEN DoorDuration ELSE DrawerDuration

\* a tween leaves only by its onComplete, a timer only by its callback
neverCancelled ==
    /\ \A a \in anims : a \in anims' \/ ticked(a, anims') \/ completes(a)
    /\ \A t \in timers : t \in timers' \/ ticked(t, timers') \/ continues(t)

C21_RunsToCompletion ==
    /\ [][neverCancelled]_vars
    /\ (~Quiescent) ~> Quiescent

\* a second call was made while the tween or the timer of the first was
\* pending, and everything has ended since
C21_Witness ==
    /\ call.n = 2
    /\ ~call.quiet
    /\ Quiescent
    /\ \E i \in DoorIdx : doorOpen(i)

---------------------------------------------------------------------------
\* C22: a toggle invoked on a Panel while that Panel's animation is still in
\* flight is neither rejected nor queued: it starts another animation whose
\* target is computed from the stored, not yet flipped, open flag, so two
\* toggles of the same Panel issued before the first animation completes
\* leave the Panel in the same final state as a single toggle (the second
\* does not reverse the first).

\* after this step a tween of the panel, or the timer that starts it, is
\* pending with its whole time left and the flag isOpen captured
pendingFor(kind, obj, isOpen) ==
    \/ \E a \in anims' :
          /\ a.kind = kind /\ a.obj = obj /\ a.isOpen = isOpen
          /\ a.left = IF kind = "door" THEN DoorDuration ELSE DrawerDuration
    \/ \E t \in timers' :
          /\ t.kind = kind /\ t.obj = obj /\ t.isOpen = isOpen
          /\ t.left = IF kind = "door" THEN DoorCloseDelay ELSE DrawerOpenDelay

\* this step is a toggle of a panel that has a tween in flight, and it is
\* served from the stored flag beside what was pending
reentered ==
    (call'.n = call.n + 1 /\ call'.busy /\ ~threw') =>
        /\ anims \subseteq anims'
        /\ timers \subseteq timers'
        /\ IF call'.op = "toggleDoor"
           THEN pendingFor("door", at(doors, call'.arg), doorOpen(call'.arg))
           ELSE pendingFor("drawer", at(drawers, call'.arg), drawerOpen(call'.arg))

\* the latest call toggled a panel before an earlier animation of it had
\* completed
reentry == call.busy

\* everything has ended, and the panel of the latest call is marked the
\* opposite of what it was marked at the call: what one toggle does
toggledOnce ==
    /\ reentry
    /\ Quiescent
    /\ IF call.op = "toggleDoor"
       THEN doorOpen(call.arg) = ~call.doorWas[at(doors, call.arg)]
       ELSE drawerOpen(call.arg) = ~call.drawerWas[at(drawers, call.arg)]

C22_ReentrantToggleDoesNotReverse ==
    /\ [][reentered]_vars
    /\ reentry ~> (toggledOnce \/ ~reentry)

\* door 1 was toggled again while it was closing, and has ended closed
C22_Witness ==
    /\ reentry
    /\ call.op = "toggleDoor" /\ call.arg = 1 /\ doorWas(1, TRUE)
    /\ Quiescent
    /\ ~doorOpen(1)

---------------------------------------------------------------------------
\* C23: frame condition: toggleDoor(d) never changes the stored open flag of
\* any other door nor of any drawer not controlled by d, and toggleDrawer(i)
\* never changes the flag of any other drawer nor of any door other than
\* drawerToDoorMap[i]; closing an open drawer and opening a closed door change
\* no other panel at all.

\* the flags of these doors and drawers are what they were at the latest call
doorsKept(ds) == \A k \in ds : doorOpen(k) = call.doorWas[at(doors, k)]
drawersKept(ws) == \A j \in ws : drawerOpen(j) = call.drawerWas[at(drawers, j)]

\* the latest call was made on the loaded model
calledLoaded(op) ==
    call.op = op /\ call.load = "loaded" /\ loadState = "loaded"

C23_FrameCondition ==
    /\ calledLoaded("toggleDoor") =>
          LET d == call.arg
          IN  /\ doorsKept(DoorIdx \ {d})
              /\ drawersKept({j \in DrawerIdx : drawerToDoorMap[j] # d})
              /\ doorWas(d, FALSE) => drawersKept(DrawerIdx)
    /\ calledLoaded("toggleDrawer") =>
          LET i == call.arg
          IN  /\ drawersKept(DrawerIdx \ {i})
              /\ doorsKept({k \in DoorIdx : i \notin DOMAIN drawerToDoorMap
                                             \/ drawerToDoorMap[i] # k})
              /\ drawerWas(i, TRUE) => doorsKept(DoorIdx)

\* door 1 was closed over its open drawer 2 while drawer 0 stood open behind
\* the open door 0: all has ended, and drawer 0 and door 0 are still open
C23_Witness ==
    /\ calledLoaded("toggleDoor") /\ call.arg = 1
    /\ doorWas(1, TRUE) /\ drawerWas(2, TRUE)
    /\ drawerWas(0, TRUE) /\ doorWas(0, TRUE)
    /\ Quiescent
    /\ ~doorOpen(1) /\ ~drawerOpen(2) /\ drawerOpen(0) /\ doorOpen(0)

---------------------------------------------------------------------------
\* C24: in every quiescent state (no animation in flight, no timer pending),
\* each panel's position on its motion axis equals its original offset if it
\* is marked closed and equals its open target if it is marked open, for
\* every sequence of toggles including re-entrant ones.

\* where door i / drawer i stands along its motion axis
doorAt(i) == position[at(doors, i)].x
drawerAt(i) ==
    IF i \in {0, 1} THEN position[at(drawers, i)].x ELSE position[at(drawers, i)].z

\* the open target of door i / drawer i
doorOpenAt(i) ==
    doorOriginalX[at(doors, i)]
        + getSlidingAmount(at(doors, i)) * (IF i \in {0, 1} THEN -1 ELSE 1)
drawerOpenAt(i) ==
    IF i \in {0, 1}
    THEN drawerOriginalX[at(drawers, i)] - getDrawerPullAmount(at(drawers, i))
    ELSE drawerOriginalZ[at(drawers, i)] + getDrawerPullAmount(at(drawers, i))

\* the original offset of drawer i along its motion axis
drawerClosedAt(i) ==
    IF i \in {0, 1} THEN drawerOriginalX[at(drawers, i)]
    ELSE drawerOriginalZ[at(drawers, i)]

C24_QuiescentPositionsMatchFlags ==
    Quiescent =>
        /\ \A i \in DoorIdx :
              doorAt(i) = IF doorOpen(i) THEN doorOpenAt(i)
                          ELSE doorOriginalX[at(doors, i)]
        /\ \A i \in DrawerIdx :
              drawerAt(i) = IF drawerOpen(i) THEN drawerOpenAt(i)
                            ELSE drawerClosedAt(i)

\* all has ended after a call made while tweens of an earlier call were in
\* flight: a door, a top drawer and a Z-axis drawer are open, a door is closed
C24_Witness ==
    /\ Quiescent /\ call.n = 2 /\ ~call.quiet /\ has(drawers, 2)
    /\ call.op \in {"toggleDoor", "toggleDrawer"}
    /\ doorOpen(1) /\ drawerOpen(0) /\ drawerOpen(2) /\ ~doorOpen(2)
    /\ doorAt(1) # doorOriginalX[at(doors, 1)]
    /\ drawerAt(0) < drawerClosedAt(0)
    /\ drawerAt(2) > drawerClosedAt(2)

---------------------------------------------------------------------------
\* C25: for every subset of the known door and drawer names actually present
\* in the loaded model, the panel stored at position i of the doors (resp.
\* drawers) list is the panel whose name has fixed index i, so that the
\* index-keyed direction table, top-drawer test and drawerToDoorMap apply to
\* the physically intended panel.

\* the group at position i of the list carries the i-th of the names
namedByPosition(list, names) ==
    \A i \in 0..Len(list) - 1 : modelRef[at(list, i)].name = names[i + 1]

C25_PositionIsFixedIndex ==
    loadState = "loaded" =>
        /\ namedByPosition(doors, doorNames)
        /\ namedByPosition(drawers, drawerNames)
---------------------------------------------------------------------------
\* The product viewer's page: init() has called loadModel(currentModelKey).

ViewerInit ==
    /\ loadState = "loading"
    /\ doors = << >> /\ doorStates = << >> /\ doorOriginalX = << >>
    /\ drawers = << >> /\ drawerStates = << >>
    /\ drawerOriginalX = << >> /\ drawerOriginalZ = << >>
    /\ position = << >> /\ bboxSize = << >> /\ modelRef = << >>
    /\ tooltip = [visible |-> FALSE, text |-> NoText]
    /\ containerPointer = FALSE
    /\ doorBtn = << >> /\ drawerBtn = << >>
    /\ anims = {} /\ timers = {} /\ threw = FALSE /\ call = NoCall
    /\ \E assets \in [ModelKeys -> TriangleCounts], checked \in BOOLEAN :
           viewer = loadModel(constructed(assets, checked), "marble")

ViewerNext ==
    \/ ModelLoaded
    \/ ModelLoadError
    \/ ModelSelectChange
    \/ QualityClick
    \/ ShadowsChange
    \/ SsaoChange
    \/ BloomChange
    \/ PresetClick

ViewerSpec == ViewerInit /\ [][ViewerNext]_vars
---------------------------------------------------------------------------
\* C26: in the product viewer at most one loaded model is attached to the
\* scene in every reachable state, also when a second loadModel is started
\* before the callback of the previous load has run.
C26_AtMostOneModelAttached == Cardinality(viewer.scene) <= 1

\* C27: once every load has completed (none pending, none rejected),
\* this.model is the model configured under currentModelKey, the key
\* requested last, in whatever order the callbacks of overlapping loads ran,
\* and the camera preset in force was read from the configuration of that
\* model.
C27_ModelIsCurrentKey ==
    (viewer.pending = {} /\ ~viewer.rejected)
        => /\ viewer.model # NoModel
           /\ viewer.model.key = viewer.currentModelKey
           /\ viewer.cameraConfig = viewer.model.key

\* C28: while a high-poly model is loaded (useDirectRendering), the shadow
\* map of the renderer and castShadow of the key light are off, whatever
\* quality presses and effects-checkbox changes were made since the load.
C28_HighPolyKeepsShadowsOff ==
    viewer.useDirectRendering
        => /\ ~viewer.shadowMapEnabled
           /\ ~viewer.keyCastShadow
=============================================================================
